---- MODULE Spec2Model ----
(***************************************************************************)
(* Model of src/training/obs.py: the batched observation builder           *)
(* NectoObsBuilder (timer recurrence, tensor assembly, team normalisation, *)
(* relative-frame step, action injection) and the single-tick reference    *)
(* encoder NectoObsOLD.                                                    *)
(*                                                                         *)
(* Conventions.                                                            *)
(*  - Arrays are functions on 0..len-1, indexed as in the source; the      *)
(*    channel axis of a tensor is a sequence, channel c being element      *)
(*    c + 1 (see Ch).                                                      *)
(*  - self.n_players = None is written 0.                                  *)
(*  - A read past the end of an array (the compiled timer loop checks no   *)
(*    bounds) finds any value: the parameter oob of the timer operators.   *)
(*  - Timer values are kept in physics frames (1/120 s): the source's      *)
(*    10, 4 and 3 seconds are 10*FPS, 4*FPS, 3*FPS and the source's        *)
(*    decrement tick_skip / 120 seconds is tick_skip frames, so the        *)
(*    recurrence is exact integer arithmetic.                              *)
(*  - Tensor channels hold exact rationals <<num, den>> in lowest terms.   *)
(*  - Channels 25..54 of the Key-Value tensor (the trigonometric           *)
(*    relative-frame values) are not represented; channels 0..24 are.      *)
(***************************************************************************)
EXTENDS Integers, Sequences, FiniteSets, TLC

\* ---------------------------------------------------------------- bounds
MaxTicks == 1        \* ticks per batch in the timer behaviours
SplitTicks == 2      \* ticks per batch in the split behaviours
MaxHistory == 3      \* ticks per episode in the split behaviours
ObsTicks == 2        \* ticks per batch in the tensor behaviours
NumPads == 1         \* pads in the tensor behaviours
MaxPlayers == 2      \* players in the tensor behaviours
MaxCapacity == 3     \* configured capacity in the tensor behaviours

\* ------------------------------------------------------ program constants
FPS == 120
MAJOR_SECONDS == 10
MINOR_SECONDS == 4
DEMO_SECONDS == 3
MAJOR_HEIGHT == 72
\* the lengths and offsets of rlgym's encoded game state
BALL_STATE_LENGTH == 18
PLAYER_INFO_LENGTH == 39
DEMO_OFFSET == 33
TEAM_OFFSET == 1

\* tick_skip is a constructor argument: 240 frames divide the reset values, 250 do not
TickSkips == {240, 250}
BOOST_LOCATIONS == {<<0, -4240, 70>>, <<-3584, 0, 73>>}

\* ------------------------------------------------------------ array helpers
Len0(a) == Cardinality(DOMAIN a)

Concat0(a, b) ==
    [i \in 0..(Len0(a) + Len0(b) - 1) |-> IF i < Len0(a) THEN a[i] ELSE b[i - Len0(a)]]

Max(a, b) == IF a >= b THEN a ELSE b

Zeros(n) == [i \in 0..(n - 1) |-> 0]

VARIABLES
    self_n_players,        \* configured capacity, 0 for None
    self_tick_skip,
    self_boost_locations,  \* [pad -> <<x, y, z>>]
    self_boost_timers,     \* carried pad timers
    self_demo_timers,      \* carried player timers
    encoded_states,        \* the batch of the last call, [0..T-1 -> tick]
    width,                 \* encoded_states.shape[1] of the last call
    status,                \* "reset", "ok" (tensors returned) or "error" (raised)
    boost_timers,          \* pad timer matrix of the last call, [0..T-1 -> [pad -> frames]]
    demo_timers,           \* player timer matrix of the last call
    q,                     \* returned Query tensors, q[i][t][c]
    kv_in,                 \* kv as handed to add_relative_components
    kv,                    \* returned Key-Value tensors, kv[i][t][e][c]
    m,                     \* returned Mask tensors, m[i][t][e]
    episode_teams,         \* team_num of the players of the running episode
    hist_states,           \* every tick handed to the builder since _reset
    hist_boost,            \* the pad timer matrices returned since _reset, concatenated
    hist_demo,             \* the player timer matrices returned since _reset, concatenated
    prev_boost_timers,           \* self.boost_timers as the last call received it
    prev_demo_timers,            \* self.demo_timers as the last call received it
    old_boost_timers,      \* NectoObsOLD.boost_timers
    old_demo_timers,       \* NectoObsOLD.demo_timers
    old_obs                \* NectoObsOLD.build_obs per player and tick, old_obs[i][t]

builder == <<self_n_players, self_tick_skip, self_boost_locations, episode_teams>>
tensors == <<q, kv_in, kv, m>>
vars == <<self_n_players, self_tick_skip, self_boost_locations, self_boost_timers,
          self_demo_timers, encoded_states, width, status, boost_timers, demo_timers,
          q, kv_in, kv, m, episode_teams, hist_states, hist_boost, hist_demo,
          prev_boost_timers, prev_demo_timers, old_boost_timers, old_demo_timers, old_obs>>
history == <<hist_states, hist_boost, hist_demo>>
reference == <<old_boost_timers, old_demo_timers, old_obs>>

\* --------------------------------------------------------- _update_timers
\* boost_states[i, b] / demo_states[i, b]; a row index past the array is read
\* without a bounds check in the compiled loop and yields whatever the memory
\* holds (oob), which only matters through the comparison that follows.
StateAt(states, i, b, oob) == IF i \in DOMAIN states THEN states[i][b] ELSE oob[b]

DecrementUnclamped(prev, tick_skip) == prev - tick_skip

Decrement(prev, tick_skip) == Max(0, prev - tick_skip)

PadResetValue(loc) == IF loc[3] > MAJOR_HEIGHT THEN MAJOR_SECONDS * FPS ELSE MINOR_SECONDS * FPS

\* Row i of the local (T+1)-row array boost_timers; row 0 is the carry.
RECURSIVE BoostTimerRow(_, _, _, _, _, _)
BoostTimerRow(i, carry, locations, tick_skip, boost_states, oob) ==
    IF i = 0 THEN carry
    ELSE LET prev == BoostTimerRow(i - 1, carry, locations, tick_skip, boost_states, oob)
         IN [b \in DOMAIN carry |->
               IF StateAt(boost_states, i, b, oob) = 0
               THEN PadResetValue(locations[b])
               ELSE IF i - 1 >= 0 /\ prev[b] > 0
                    THEN Decrement(prev[b], tick_skip)
                    ELSE 0]

RECURSIVE DemoTimerRow(_, _, _, _, _)
DemoTimerRow(i, carry, tick_skip, demo_states, oob) ==
    IF i = 0 THEN carry
    ELSE LET prev == DemoTimerRow(i - 1, carry, tick_skip, demo_states, oob)
         IN [b \in DOMAIN carry |->
               IF StateAt(demo_states, i, b, oob) = 1
               THEN DEMO_SECONDS * FPS
               ELSE IF i - 1 >= 0 /\ prev[b] > 0
                    THEN Decrement(prev[b], tick_skip)
                    ELSE 0]

\* return boost_timers[1:], demo_timers[1:]
UpdateTimers(carry_boost, locations, carry_demo, tick_skip, boost_states, demo_states, oob) ==
    LET T == Len0(boost_states)
    IN [boost |-> [t \in 0..(T - 1) |->
                     BoostTimerRow(t + 1, carry_boost, locations, tick_skip, boost_states, oob.boost)],
        demo  |-> [t \in 0..(T - 1) |->
                     DemoTimerRow(t + 1, carry_demo, tick_skip, demo_states, oob.demo)]]

\* ------------------------------------------------------- exact rationals
Abs(x) == IF x < 0 THEN -x ELSE x

RECURSIVE GCD(_, _)
GCD(a, b) == IF b = 0 THEN a ELSE GCD(b, a % b)

\* n / d in lowest terms with a positive denominator (d # 0)
Rat(n, d) ==
    LET g == GCD(Abs(n), Abs(d))
        s == IF d < 0 THEN -1 ELSE 1
    IN <<(s * n) \div g, (s * d) \div g>>

RInt(n) == <<n, 1>>
RZero == <<0, 1>>
ROne == <<1, 1>>
RSub(a, b) == IF b = RZero THEN a ELSE Rat(a[1] * b[2] - b[1] * a[2], a[2] * b[2])
RMul(a, b) == IF b = ROne THEN a ELSE Rat(a[1] * b[1], a[2] * b[2])
RDiv(a, b) == IF b = ROne THEN a ELSE Rat(a[1] * b[2], a[2] * b[1])

RVec(v) == <<RInt(v[1]), RInt(v[2]), RInt(v[3])>>
RZeros(n) == [k \in 1..n |-> RZero]

RECURSIVE Repeat(_, _)
Repeat(seq, n) == IF n = 0 THEN <<>> ELSE seq \o Repeat(seq, n - 1)

\* ------------------------------------------------------- channel layout
\* A tensor row is the sequence of its channels: channel c is element c + 1.
IS_SELF == 0
IS_MATE == 1
IS_OPP == 2
IS_BALL == 3
IS_BOOST == 4
POS == 5
LIN_VEL == 8
FW == 11
UP == 14
ANG_VEL == 17
BOOST == 20
DEMO == 21
ON_GROUND == 22
HAS_FLIP == 23
HAS_JUMP == 24
ACTIONS_START == 25
ACTIONS_STOP == 33

Ch(row, c) == row[c + 1]
Channels == 0..HAS_JUMP
KindChannels == {IS_SELF, IS_MATE, IS_OPP, IS_BALL, IS_BOOST}

\* _invert = [1]*5 + [-1,-1,1]*5 + [1]*5 (+ [1]*30 for the relative channels)
INVERT ==
    Repeat(<<ROne>>, 5) \o Repeat(<<RInt(-1), RInt(-1), ROne>>, 5) \o Repeat(<<ROne>>, 5)

\* _norm = [1.]*5 + [2300]*6 + [1]*6 + [5.5]*3 + [1, 10, 1, 1, 1] (+ [1]*30)
NORM ==
    Repeat(<<ROne>>, 5) \o Repeat(<<RInt(2300)>>, 6) \o Repeat(<<ROne>>, 6)
        \o Repeat(<<Rat(11, 2)>>, 3) \o <<ROne, RInt(10), ROne, ROne, ROne>>

\* ---------------------------------------------------- _quats_to_rot_mtx
\* theta[r][c] for one quaternion <<q0, q1, q2, q3>> (1-indexed tuple)
QuatsToRotMtx(quat) ==
    LET w == -quat[1]
        x == -quat[2]
        y == -quat[3]
        z == -quat[4]
        norm == quat[1] * quat[1] + quat[2] * quat[2] + quat[3] * quat[3] + quat[4] * quat[4]
    IN IF norm = 0
       THEN [r \in 0..2 |-> [c \in 0..2 |-> RZero]]
       ELSE [r \in 0..2 |-> [c \in 0..2 |->
               CASE r = 0 /\ c = 0 -> Rat(norm - 2 * (y * y + z * z), norm)
                 [] r = 1 /\ c = 0 -> Rat(2 * (x * y + z * w), norm)
                 [] r = 2 /\ c = 0 -> Rat(2 * (x * z - y * w), norm)
                 [] r = 0 /\ c = 1 -> Rat(2 * (x * y - z * w), norm)
                 [] r = 1 /\ c = 1 -> Rat(norm - 2 * (x * x + z * z), norm)
                 [] r = 2 /\ c = 1 -> Rat(2 * (y * z + x * w), norm)
                 [] r = 0 /\ c = 2 -> Rat(2 * (x * z + y * w), norm)
                 [] r = 1 /\ c = 2 -> Rat(2 * (y * z - x * w), norm)
                 [] r = 2 /\ c = 2 -> Rat(norm - 2 * (x * x + y * y), norm)]]

\* ------------------------------------------------------ batched_build_obs
\* 3 + GameState.BOOST_PADS_LENGTH + GameState.BALL_STATE_LENGTH, for n_pads pads
players_start_index(n_pads) == 3 + n_pads + BALL_STATE_LENGTH

\* number of columns of encoded_states[:, start::step] for a record of width w
StridedLen(w, start, step) == IF w <= start THEN 0 ELSE (w - start + step - 1) \div step

NPlayers(w, n_pads) == (w - players_start_index(n_pads)) \div PLAYER_INFO_LENGTH

LimPlayers(w, n_pads, n_cfg) == IF n_cfg = 0 THEN NPlayers(w, n_pads) ELSE n_cfg

NEntities(w, n_pads, n_cfg) == LimPlayers(w, n_pads, n_cfg) + 1 + n_pads

\* BALL and BOOSTS blocks: the row e before any player is written
BaseRow(tick, e, sel_ball, locations, boost_row) ==
    IF e = sel_ball
    THEN <<RZero, RZero, RZero, ROne, RZero>>
            \o RVec(tick.ball.pos) \o RVec(tick.ball.lin_vel) \o RZeros(6)
            \o RVec(tick.ball.ang_vel) \o RZeros(5)
    ELSE IF e > sel_ball
    THEN <<RZero, RZero, RZero, RZero, ROne>>
            \o RVec(locations[e - sel_ball - 1]) \o RZeros(12)
            \o <<ROne, Rat(boost_row[e - sel_ball - 1], FPS), RZero, RZero, RZero>>
    ELSE RZeros(HAS_JUMP + 1)

\* the flag written into every observer's copy of the row (kv[:, :, i, IS_SELF] = 1)
SelfFlagAllObservers(base, i, e) == ROne

\* kv[i, :, i, IS_SELF] = 1: row e of observer i
SelfFlag(base, i, e) == IF i = e THEN ROne ELSE Ch(base, IS_SELF)

\* PLAYERS block: what the loop writes into row e (= player e) of observer i
PlayerRow(base, i, e, player, team, demo_frames) ==
    LET rot_mtx == QuatsToRotMtx(player.quat)
    IN <<SelfFlag(base, i, e), RInt(1 - team), RInt(team),
         Ch(base, IS_BALL), Ch(base, IS_BOOST)>>
          \o RVec(player.pos) \o RVec(player.lin_vel)
          \o <<rot_mtx[0][0], rot_mtx[1][0], rot_mtx[2][0]>>
          \o <<rot_mtx[0][2], rot_mtx[1][2], rot_mtx[2][2]>>
          \o RVec(player.ang_vel)
          \o <<RInt(player.boost_amount), Rat(demo_frames, FPS), RInt(player.on_ground),
               RInt(player.has_flip), RInt(player.has_jump)>>

Assemble(es, n_players, lim_players, n_entities, locations, tm) ==
    [i \in 0..(n_players - 1) |-> [t \in DOMAIN es |-> [e \in 0..(n_entities - 1) |->
        LET base == BaseRow(es[t], e, lim_players, locations, tm.boost[t])
        IN IF e < n_players
           THEN PlayerRow(base, i, e, es[t].players[e], es[0].players[e].team, tm.demo[t][e])
           ELSE base]]]

\* kv[teams == 1] *= self._invert
InvertRow(row) == [k \in DOMAIN row |-> RMul(row[k], INVERT[k])]

\* the two assignments one after the other: both flags end as IS_OPP
SwapTeamsInPlace(row) ==
    [k \in DOMAIN row |-> IF k = IS_MATE + 1 THEN Ch(row, IS_OPP) ELSE row[k]]

\* kv[..., (IS_MATE, IS_OPP)] = kv[..., (IS_OPP, IS_MATE)]
SwapTeams(row) ==
    [k \in DOMAIN row |-> IF k = IS_MATE + 1 THEN Ch(row, IS_OPP)
                          ELSE IF k = IS_OPP + 1 THEN Ch(row, IS_MATE) ELSE row[k]]

\* kv /= self._norm
NormRow(row) == [k \in DOMAIN row |-> RDiv(row[k], NORM[k])]

TeamNormalise(es, k) ==
    [i \in DOMAIN k |-> [t \in DOMAIN k[i] |-> [e \in DOMAIN k[i][t] |->
        NormRow(IF es[0].players[i].team = 1
                THEN SwapTeams(InvertRow(k[i][t][e]))
                ELSE k[i][t][e])]]]

\* q[i, :, 0, :HAS_JUMP + 1] = kv[i, :, i, :HAS_JUMP + 1]; the action channels stay 0
Query(k) ==
    [i \in DOMAIN k |-> [t \in DOMAIN k[i] |->
        k[i][t][i] \o RZeros(ACTIONS_STOP - ACTIONS_START)]]

\* add_relative_components: vals is a view of kv[..., POS:ANG_VEL+3], and
\* vals[..., POS:LIN_VEL+3] -= q[..., POS:LIN_VEL+3] writes through it.
RelativeTarget(c) == c - POS >= POS /\ c - POS < FW

RelativeRow(qrow, row) ==
    [c1 \in DOMAIN row |->
        IF RelativeTarget(c1 - 1) THEN RSub(row[c1], Ch(qrow, c1 - 1 - POS)) ELSE row[c1]]

AddRelativeComponents(qq, k) ==
    [i \in DOMAIN k |-> [t \in DOMAIN k[i] |-> [e \in DOMAIN k[i][t] |->
        RelativeRow(qq[i][t], k[i][t][e])]]]

\* the slice of a layout that has the ball in row 0
MaskedRowAfterBall(e, n_players, lim_players) == e >= 1 + n_players /\ e < 1 + lim_players

\* m[:, :, n_players:lim_players] = 1
MaskedRow(e, n_players, lim_players) == e >= n_players /\ e < lim_players

Mask(es, n_players, lim_players, n_entities) ==
    [i \in 0..(n_players - 1) |-> [t \in DOMAIN es |-> [e \in 0..(n_entities - 1) |->
        IF MaskedRow(e, n_players, lim_players) THEN 1 ELSE 0]]]

\* The shapes numpy refuses: teams (one entry per started player block) against
\* the n_players rows of kv, and more player rows than kv has entity rows.
Raises(w, n_pads, n_cfg) ==
    \/ StridedLen(w, players_start_index(n_pads) + TEAM_OFFSET, PLAYER_INFO_LENGTH)
          # NPlayers(w, n_pads)
    \/ NPlayers(w, n_pads) > NEntities(w, n_pads, n_cfg)

BatchedBuildObs(es, w, oob) ==
    LET n_pads == Len0(self_boost_locations)
        n_players == NPlayers(w, n_pads)
        lim_players == LimPlayers(w, n_pads, self_n_players)
        n_entities == NEntities(w, n_pads, self_n_players)
        T == Len0(es)
        tm == UpdateTimers(self_boost_timers, self_boost_locations, self_demo_timers,
                           self_tick_skip,
                           [t \in DOMAIN es |-> es[t].pads],
                           [t \in DOMAIN es |->
                               [j \in DOMAIN self_demo_timers |-> es[t].players[j].is_demoed]],
                           oob)
        normalised == TeamNormalise(es, Assemble(es, n_players, lim_players, n_entities,
                                                 self_boost_locations, tm))
    IN /\ T >= 1
       /\ StridedLen(w, players_start_index(n_pads) + DEMO_OFFSET, PLAYER_INFO_LENGTH)
             = Len0(self_demo_timers)
       /\ prev_boost_timers' = self_boost_timers
       /\ prev_demo_timers' = self_demo_timers
       /\ self_boost_timers' = tm.boost[T - 1]
       /\ self_demo_timers' = tm.demo[T - 1]
       /\ boost_timers' = tm.boost
       /\ demo_timers' = tm.demo
       /\ encoded_states' = es
       /\ width' = w
       /\ IF Raises(w, n_pads, self_n_players)
          THEN /\ status' = "error"
               /\ q' = <<>> /\ kv_in' = <<>> /\ kv' = <<>> /\ m' = <<>>
          ELSE /\ status' = "ok"
               /\ kv_in' = normalised
               /\ q' = Query(kv_in')
               /\ kv' = AddRelativeComponents(q', kv_in')
               /\ m' = Mask(es, n_players, lim_players, n_entities)
       /\ UNCHANGED builder

\* add_actions(obs, previous_actions, player_index)
AddActions(previous_actions, player_index) ==
    /\ status = "ok"
    /\ q' = [i \in DOMAIN q |-> [t \in DOMAIN q[i] |-> [c1 \in DOMAIN q[i][t] |->
               IF c1 - 1 >= ACTIONS_START /\ (player_index = -1 \/ player_index = i)
               THEN RInt(previous_actions[i][c1 - ACTIONS_START])
               ELSE q[i][t][c1]]]]
    /\ status' = "injected"
    /\ UNCHANGED <<kv_in, kv, m, self_boost_timers, self_demo_timers, encoded_states,
                   width, boost_timers, demo_timers, prev_boost_timers, prev_demo_timers>>
    /\ UNCHANGED builder

\* _reset(initial_state); the tensors of the finished episode are dropped
Reset ==
    /\ status # "reset"
    /\ self_demo_timers' = Zeros(Len0(episode_teams))
    /\ self_boost_timers' = Zeros(Len0(self_boost_locations))
    /\ status' = "reset"
    /\ encoded_states' = <<>> /\ width' = 0
    /\ boost_timers' = <<>> /\ demo_timers' = <<>>
    /\ prev_boost_timers' = <<>> /\ prev_demo_timers' = <<>>
    /\ q' = <<>> /\ kv_in' = <<>> /\ kv' = <<>> /\ m' = <<>>
    /\ UNCHANGED builder

\* ------------------------------------------------------------ NectoObsOLD
\* The reference encoder keeps its timers pre-normalised (seconds / 10); they are
\* kept here in frames as well, so that a stored value v stands for v / (10 * FPS).
OLD_INVERT ==
    Repeat(<<ROne>>, 5) \o Repeat(<<RInt(-1), RInt(-1), ROne>>, 5) \o Repeat(<<ROne>>, 4)

OLD_NORM ==
    Repeat(<<ROne>>, 5) \o Repeat(<<RInt(2300)>>, 6) \o Repeat(<<ROne>>, 6)
        \o Repeat(<<Rat(11, 2)>>, 3) \o Repeat(<<ROne>>, 4)

\* 0.4 + 0.6 * (z > 72), in frames of the 10 s scale
OldPadReset(loc) == IF loc[3] > MAJOR_HEIGHT THEN 10 * FPS ELSE 4 * FPS

OldDemoReset == 3 * FPS

\* timers[new] = reset; timers *= bits: the value written to channel 21
OldShown(timer, bit, reset) == (IF bit = 1 /\ timer = 0 THEN reset ELSE timer) * bit

\* timers -= tick_skip / 1200; timers[timers < 0] = 0
OldAfter(timer, bit, reset, tick_skip) == Max(0, OldShown(timer, bit, reset) - tick_skip)

\* demos = np.zeros(n_players); demos[n - 1] = player.is_demoed
OldDemos(state, capacity) ==
    [j \in 0..(capacity - 1) |->
        IF j \in DOMAIN state.players THEN state.players[j].is_demoed ELSE 0]

\* self.boost_timers / self.demo_timers when tick t of the batch arrives
RECURSIVE OldBoostBefore(_, _, _, _, _)
OldBoostBefore(t, timers, locations, tick_skip, es) ==
    IF t = 0 THEN timers
    ELSE LET before == OldBoostBefore(t - 1, timers, locations, tick_skip, es)
         IN [b \in DOMAIN timers |->
               OldAfter(before[b], es[t - 1].pads[b], OldPadReset(locations[b]), tick_skip)]

RECURSIVE OldDemoBefore(_, _, _, _)
OldDemoBefore(t, timers, tick_skip, es) ==
    IF t = 0 THEN timers
    ELSE LET before == OldDemoBefore(t - 1, timers, tick_skip, es)
         IN [j \in DOMAIN timers |->
               OldAfter(before[j], OldDemos(es[t - 1], Len0(timers))[j], OldDemoReset,
                        tick_skip)]

\* _maybe_update_obs: row e of current_qkv ( = qkv / _norm)
OldRow(state, e, capacity, locations, boost_before, demo_before) ==
    LET raw ==
        IF e = 0
        THEN <<RZero, RZero, RZero, ROne, RZero>>
                \o RVec(state.ball.pos) \o RVec(state.ball.lin_vel) \o RZeros(6)
                \o RVec(state.ball.ang_vel) \o RZeros(4)
        ELSE IF e <= capacity
        THEN LET demo == Rat(OldShown(demo_before[e - 1], OldDemos(state, capacity)[e - 1],
                                      OldDemoReset), 10 * FPS)
             IN IF e - 1 \in DOMAIN state.players
                THEN LET player == state.players[e - 1]
                         rot_mtx == QuatsToRotMtx(player.quat)
                     IN <<RZero, RInt(1 - player.team), RInt(player.team), RZero, RZero>>
                          \o RVec(player.pos) \o RVec(player.lin_vel)
                          \o <<rot_mtx[0][0], rot_mtx[1][0], rot_mtx[2][0]>>
                          \o <<rot_mtx[0][2], rot_mtx[1][2], rot_mtx[2][2]>>
                          \o RVec(player.ang_vel)
                          \o <<RInt(player.boost_amount), demo, RInt(player.on_ground),
                               RInt(player.has_flip)>>
                ELSE RZeros(DEMO) \o <<demo, RZero, RZero>>
        ELSE LET b == e - capacity - 1
             IN <<RZero, RZero, RZero, RZero, ROne>>
                  \o RVec(locations[b]) \o RZeros(12)
                  \o <<IF locations[b][3] > MAJOR_HEIGHT THEN ROne ELSE Rat(12, 100),
                       Rat(OldShown(boost_before[b], state.pads[b], OldPadReset(locations[b])),
                           10 * FPS),
                       RZero, RZero>>
    IN [k \in DOMAIN raw |-> RDiv(raw[k], OLD_NORM[k])]

\* mask[0, 1 + len(state.players):1 + self.n_players] = 1
OldMaskedRow(e, n_players, capacity) == e >= 1 + n_players /\ e < 1 + capacity

\* build_obs for the player of index i
OldBuildObs(i, state, capacity, current_qkv, previous_action) ==
    LET main_n == i + 1
        invert == state.players[i].team = 1
        marked == [e \in DOMAIN current_qkv |->
                     [k \in DOMAIN current_qkv[e] |->
                        IF e = main_n /\ k = IS_SELF + 1 THEN ROne ELSE current_qkv[e][k]]]
        qkv == [e \in DOMAIN marked |->
                  IF invert
                  THEN [k \in DOMAIN marked[e] |->
                          RMul(SwapTeams(marked[e])[k], OLD_INVERT[k])]
                  ELSE marked[e]]
        qrow == qkv[main_n]
    IN [q  |-> qrow \o [k \in 1..8 |-> RInt(previous_action[k])],
        kv |-> [e \in DOMAIN qkv |-> [k \in DOMAIN qkv[e] |->
                   IF k - 1 >= POS /\ k - 1 < FW THEN RSub(qkv[e][k], qrow[k]) ELSE qkv[e][k]]],
        m  |-> [e \in DOMAIN qkv |->
                   IF OldMaskedRow(e, Len0(state.players), capacity) THEN 1 ELSE 0]]

\* the observations the reference encoder gives for the ticks of es, one after another
OldObservations(es, capacity, locations, tick_skip, boost0, demo0) ==
    [i \in DOMAIN es[0].players |-> [t \in DOMAIN es |->
        LET bb == OldBoostBefore(t, boost0, locations, tick_skip, es)
            db == OldDemoBefore(t, demo0, tick_skip, es)
            current_qkv == [e \in 0..(capacity + Len0(locations)) |->
                               OldRow(es[t], e, capacity, locations, bb, db)]
        IN OldBuildObs(i, es[t], capacity, current_qkv, <<0, 0, 0, 0, 0, 0, 0, 0>>)]]

OldBuildAll(es) ==
    /\ self_n_players >= Len0(es[0].players)
    /\ old_obs' = OldObservations(es, self_n_players, self_boost_locations, self_tick_skip,
                                  old_boost_timers, old_demo_timers)
    /\ old_boost_timers' = OldBoostBefore(Len0(es), old_boost_timers, self_boost_locations,
                                          self_tick_skip, es)
    /\ old_demo_timers' = OldDemoBefore(Len0(es), old_demo_timers, self_tick_skip, es)

\* NectoObsOLD.reset
OldReset ==
    /\ old_demo_timers' = Zeros(self_n_players)
    /\ old_boost_timers' = Zeros(Len0(self_boost_locations))
    /\ old_obs' = <<>>

\* ------------------------------------------------------------ input data
RestingBall == [pos |-> <<0, 0, 93>>, lin_vel |-> <<0, 0, 0>>, ang_vel |-> <<0, 0, 0>>]
MovingBall == [pos |-> <<1150, -2300, 460>>, lin_vel |-> <<-2300, 0, 1150>>,
               ang_vel |-> <<0, 11, -11>>]

Car(pos, quat, lin_vel, ang_vel, boost_amount, flags, team, is_demoed) ==
    [pos |-> pos, quat |-> quat, lin_vel |-> lin_vel, ang_vel |-> ang_vel,
     boost_amount |-> boost_amount, on_ground |-> flags[1], has_flip |-> flags[2],
     has_jump |-> flags[3], team |-> team, is_demoed |-> is_demoed]

RestingCar(team, is_demoed) ==
    Car(<<0, 0, 17>>, <<1, 0, 0, 0>>, <<0, 0, 0>>, <<0, 0, 0>>, 0, <<1, 1, 1>>, team, is_demoed)
FlyingCar(team, is_demoed) ==
    Car(<<2300, -1150, 460>>, <<1, 1, 0, 0>>, <<1150, 0, -2300>>, <<0, 0, 11>>, 1,
        <<0, 0, 0>>, team, is_demoed)
TumblingCar(team, is_demoed) ==
    Car(<<-2300, 1150, 920>>, <<0, 0, 0, 0>>, <<0, 2300, 0>>, <<11, 0, 0>>, 1,
        <<0, 1, 0>>, team, is_demoed)

Bits(n) == [0..(n - 1) -> {0, 1}]

\* ticks of an episode in which only the pads and the demolitions vary
TimerTicks(teams, n_pads) ==
    { [pads |-> p, ball |-> RestingBall,
       players |-> [j \in DOMAIN teams |-> RestingCar(teams[j], d[j])]] :
      p \in Bits(n_pads), d \in Bits(Len0(teams)) }

\* ticks of an episode in which the ball and the cars vary
SceneTicks(teams, n_pads) ==
    { [pads |-> [b \in 0..(n_pads - 1) |-> 1], ball |-> RestingBall,
       players |-> [j \in DOMAIN teams |-> RestingCar(teams[j], 0)]],
      [pads |-> [b \in 0..(n_pads - 1) |-> 1], ball |-> MovingBall,
       players |-> [j \in DOMAIN teams |-> FlyingCar(teams[j], 0)]],
      [pads |-> [b \in 0..(n_pads - 1) |-> b % 2], ball |-> MovingBall,
       players |-> [j \in DOMAIN teams |->
                      IF j % 2 = 0 THEN TumblingCar(teams[j], 1) ELSE RestingCar(teams[j], 0)]] }

Batches(ticks, max) == UNION { [0..(T - 1) -> ticks] : T \in 1..max }

\* what the reads past the end of the batch can find
OutOfBounds(n_pads, n) == [boost : Bits(n_pads), demo : Bits(n)]
UniformOutOfBounds(n_pads, n) ==
    { [boost |-> [b \in 0..(n_pads - 1) |-> v], demo |-> [j \in 0..(n - 1) |-> v]] : v \in {0, 1} }

ExactWidth(n, n_pads) == players_start_index(n_pads) + n * PLAYER_INFO_LENGTH

\* trailing columns beyond the last whole player block
Remainders == {0, 1, 2}

PreviousActions(n) == [0..(n - 1) -> {<<1, -1, 0, 1, -1, 1, 0, 1>>}]

\* ------------------------------------------------------------ behaviours
InitBuilder(capacities, teamsets, skips, locationsets) ==
    /\ self_n_players \in capacities
    /\ self_tick_skip \in skips
    /\ self_boost_locations \in locationsets
    /\ episode_teams \in teamsets
    /\ self_demo_timers = Zeros(Len0(episode_teams))
    /\ self_boost_timers = Zeros(Len0(self_boost_locations))
    /\ status = "reset"
    /\ encoded_states = <<>> /\ width = 0
    /\ boost_timers = <<>> /\ demo_timers = <<>>
    /\ q = <<>> /\ kv_in = <<>> /\ kv = <<>> /\ m = <<>>
    /\ hist_states = <<>> /\ hist_boost = <<>> /\ hist_demo = <<>>
    /\ prev_boost_timers = <<>> /\ prev_demo_timers = <<>>
    /\ old_boost_timers = Zeros(Len0(self_boost_locations))
    /\ old_demo_timers = Zeros(self_n_players)
    /\ old_obs = <<>>

NPads == Len0(self_boost_locations)
NCars == Len0(episode_teams)

\* The timer recurrence treats every pad and every player alone, so the timer
\* behaviours follow one pad (of either class) and one player.
OnePad == [0..0 -> BOOST_LOCATIONS]
OnePlayer == [0..0 -> {0}]

\* Timer behaviours: an episode of any number of batches of pad and demolition bits.
Init == InitBuilder({0}, OnePlayer, TickSkips, OnePad)

TimerCall ==
    \E es \in Batches(TimerTicks(episode_teams, NPads), MaxTicks),
       oob \in OutOfBounds(NPads, NCars) :
        /\ BatchedBuildObs(es, ExactWidth(NCars, NPads), oob)
        /\ UNCHANGED <<history, reference>>

EpisodeReset == Reset /\ UNCHANGED <<history, reference>>

Next == TimerCall \/ EpisodeReset

Spec == Init /\ [][Next]_vars

\* Split behaviours: as above, recording the ticks fed and the matrices returned.
SplitCall ==
    \E es \in Batches(TimerTicks(episode_teams, NPads), SplitTicks),
       oob \in OutOfBounds(NPads, NCars) :
        /\ Len0(hist_states) + Len0(es) <= MaxHistory
        /\ BatchedBuildObs(es, ExactWidth(NCars, NPads), oob)
        /\ hist_states' = Concat0(hist_states, es)
        /\ hist_boost' = Concat0(hist_boost, boost_timers')
        /\ hist_demo' = Concat0(hist_demo, demo_timers')
        /\ UNCHANGED reference

SplitReset ==
    /\ Reset
    /\ hist_states' = <<>> /\ hist_boost' = <<>> /\ hist_demo' = <<>>
    /\ UNCHANGED reference

NextSplit == SplitCall \/ SplitReset

SpecSplit == Init /\ [][NextSplit]_vars

\* Tensor behaviours: the first batch of an episode, for any capacity, any team
\* assignment and any record width, followed by the injection of the actions.
Teams == UNION { [0..(n - 1) -> {0, 1}] : n \in 1..MaxPlayers }
SomePads == { [b \in 0..(NumPads - 1) |->
                 IF b % 2 = 0 THEN <<-3584, 0, 73>> ELSE <<0, -4240, 70>>] }

InitObs == InitBuilder(0..MaxCapacity, Teams, {240}, SomePads)

ObsCall ==
    \E es \in Batches(SceneTicks(episode_teams, NPads), ObsTicks),
       oob \in UniformOutOfBounds(NPads, NCars), r \in Remainders :
        /\ status = "reset"
        /\ BatchedBuildObs(es, ExactWidth(NCars, NPads) + r, oob)
        /\ UNCHANGED <<history, reference>>

Inject ==
    \E acts \in PreviousActions(NCars), player_index \in {-1, 0} :
        AddActions(acts, player_index) /\ UNCHANGED <<history, reference>>

NextObs == ObsCall \/ Inject \/ EpisodeReset

SpecObs == InitObs /\ [][NextObs]_vars

\* Comparison behaviours: the harness feeds the same ticks to the batched builder
\* and to the reference encoder, both configured with the same capacity.
InitOracle == InitBuilder(MaxPlayers..MaxCapacity, Teams, {240}, SomePads)

OracleCall ==
    \E es \in Batches(SceneTicks(episode_teams, NPads), ObsTicks),
       oob \in UniformOutOfBounds(NPads, NCars) :
        /\ status = "reset"
        /\ BatchedBuildObs(es, ExactWidth(NCars, NPads), oob)
        /\ OldBuildAll(es)
        /\ UNCHANGED history

OracleInject ==
    \E acts \in PreviousActions(NCars) :
        AddActions(acts, -1) /\ UNCHANGED <<history, reference>>

OracleReset == Reset /\ OldReset /\ UNCHANGED history

NextOracle == OracleCall \/ OracleInject \/ OracleReset

SpecOracle == InitOracle /\ [][NextOracle]_vars

\* ------------------------------------------------------------ timer properties
Returned == status \in {"ok", "injected"}

BoostReset(t, b) == encoded_states[t].pads[b] = 0
DemoReset(t, j) == encoded_states[t].players[j].is_demoed = 1

PrevBoost(t, b) == IF t = 0 THEN prev_boost_timers[b] ELSE boost_timers[t - 1][b]
PrevDemo(t, j) == IF t = 0 THEN prev_demo_timers[j] ELSE demo_timers[t - 1][j]

\* C1: from the all-zero carry of _reset, after any sequence of calls on non-empty
\* batches, every value of the returned pad and player timer matrices and every
\* value of the carried boost_timers and demo_timers is >= 0.
TimersNonNegative ==
    /\ \A b \in DOMAIN self_boost_timers : self_boost_timers[b] >= 0
    /\ \A j \in DOMAIN self_demo_timers : self_demo_timers[j] >= 0
    /\ \A t \in DOMAIN boost_timers : \A b \in DOMAIN boost_timers[t] :
          boost_timers[t][b] >= 0
    /\ \A t \in DOMAIN demo_timers : \A j \in DOMAIN demo_timers[t] :
          demo_timers[t][j] >= 0

\* C1's case: a call found a timer with less than one tick left, and cut it at zero.
TimerUnderflowClamped ==
    /\ status = "ok"
    /\ \E b \in DOMAIN prev_boost_timers :
          /\ prev_boost_timers[b] > 0
          /\ prev_boost_timers[b] < self_tick_skip
          /\ boost_timers[0][b] = 0
          /\ self_boost_timers[b] = 0

\* C2: at every tick whose binary state indicates reset for an entity (pad state 0,
\* demolition flag 1) the entity's timer at that tick is the fixed constant: 10 s for
\* a major pad, 4 s for a minor pad, 3 s for a player, whatever it was before and on
\* every tick the entity stays in the reset state.
ResetTickGivesConstant ==
    status = "ok" =>
        \A t \in DOMAIN encoded_states :
            /\ \A b \in DOMAIN boost_timers[t] :
                  BoostReset(t, b) =>
                      boost_timers[t][b] = PadResetValue(self_boost_locations[b])
            /\ \A j \in DOMAIN demo_timers[t] :
                  DemoReset(t, j) => demo_timers[t][j] = DEMO_SECONDS * FPS

\* C2's failing case inside the batch: the pad is consumed at tick 0 of a two-tick
\* batch, available at tick 1, and the row returned for tick 0 holds 0.
ResetTickLeftAtZero ==
    /\ status = "ok"
    /\ Len0(encoded_states) = 2
    /\ \E b \in DOMAIN self_boost_locations :
          /\ BoostReset(0, b)
          /\ ~BoostReset(1, b)
          /\ boost_timers[0][b] = 0

\* C3: at every tick with no reset condition for an entity the timer is
\* max(0, previous - tick_skip / 120) when the previous value (the carry for the
\* first tick of a batch) is positive, and zero when it is zero; so a single-tick
\* batch with all pads available, no demolition and a zero carry gives zero matrices.
NoResetTickDecrements ==
    status = "ok" =>
        \A t \in DOMAIN encoded_states :
            /\ \A b \in DOMAIN boost_timers[t] :
                  ~BoostReset(t, b) =>
                      boost_timers[t][b] =
                          IF PrevBoost(t, b) > 0
                          THEN Max(0, PrevBoost(t, b) - self_tick_skip) ELSE 0
            /\ \A j \in DOMAIN demo_timers[t] :
                  ~DemoReset(t, j) =>
                      demo_timers[t][j] =
                          IF PrevDemo(t, j) > 0
                          THEN Max(0, PrevDemo(t, j) - self_tick_skip) ELSE 0

\* C3's failing case inside the batch: the pad is available at tick 0 with a zero
\* carry, consumed at tick 1, and the row returned for tick 0 holds the reset value.
AvailableTickHoldsResetValue ==
    /\ status = "ok"
    /\ Len0(encoded_states) = 2
    /\ \E b \in DOMAIN self_boost_locations :
          /\ ~BoostReset(0, b)
          /\ BoostReset(1, b)
          /\ prev_boost_timers[b] = 0
          /\ boost_timers[0][b] = PadResetValue(self_boost_locations[b])

\* One call on all the ticks fed since the reset, from the zero carry of the reset.
WholeSequence(oob) ==
    UpdateTimers(Zeros(NPads), self_boost_locations, Zeros(NCars), self_tick_skip,
                 [t \in DOMAIN hist_states |-> hist_states[t].pads],
                 [t \in DOMAIN hist_states |->
                     [j \in 0..(NCars - 1) |-> hist_states[t].players[j].is_demoed]],
                 oob)

\* C10: the carry is advanced once per call and is the last row of that call's
\* matrices, so for any split of a tick sequence into consecutive non-empty batches
\* the concatenated matrices and the final carry equal those of a single call on
\* the whole sequence from the same initial carry.
BatchingTransparentForTimers ==
    (status = "ok" /\ hist_states # <<>>) =>
        /\ self_boost_timers = boost_timers[Len0(boost_timers) - 1]
        /\ self_demo_timers = demo_timers[Len0(demo_timers) - 1]
        /\ \E oob \in OutOfBounds(NPads, NCars) :
              /\ WholeSequence(oob).boost = hist_boost
              /\ WholeSequence(oob).demo = hist_demo
              /\ WholeSequence(oob).boost[Len0(hist_states) - 1] = self_boost_timers
              /\ WholeSequence(oob).demo[Len0(hist_states) - 1] = self_demo_timers

\* C10's failing case: two batches of one tick were fed, and no single call on the
\* two ticks returns the rows the two calls returned.
SplitRowsDiffer ==
    /\ status = "ok"
    /\ Len0(hist_states) = 2
    /\ Len0(encoded_states) = 1
    /\ \A oob \in OutOfBounds(NPads, NCars) : WholeSequence(oob).boost # hist_boost

\* ------------------------------------------------------------ tensor properties
CallPlayers == NPlayers(width, NPads)
CallLimit == LimPlayers(width, NPads, self_n_players)
WithinCapacity == CallPlayers <= CallLimit

KindsSet(row) == { c \in KindChannels : Ch(row, c) # RZero }
MaskedRows(mask) == { e \in DOMAIN mask : mask[e] = 1 }

\* C4: for every call with player count n <= capacity, in every observer's mask and
\* at every tick the rows marked invalid are exactly the unused player rows
\* n..capacity-1, capacity - n of them; ball, pad and real player rows are not marked.
MaskMarksUnusedPlayerRows ==
    (Returned /\ self_n_players # 0 /\ CallPlayers <= self_n_players) =>
        \A i \in DOMAIN m : \A t \in DOMAIN m[i] :
            /\ \A e \in DOMAIN m[i][t] : m[i][t][e] \in {0, 1}
            /\ MaskedRows(m[i][t]) = CallPlayers..(self_n_players - 1)
            /\ Cardinality(MaskedRows(m[i][t])) = self_n_players - CallPlayers

\* C4's case: one player with the largest capacity, all the unused rows marked.
MaskWithUnusedRows ==
    /\ status = "ok"
    /\ CallPlayers = 1
    /\ self_n_players = MaxCapacity
    /\ Len0(m[0]) = ObsTicks
    /\ MaskedRows(m[0][ObsTicks - 1]) = 1..(MaxCapacity - 1)

\* C5: in the Key-Value tensor returned for observer i (player count <= capacity),
\* at every tick exactly one entity row has IS_SELF set, and it is row i; this
\* holds for observers of either team, after normalisation and the relative step.
OneSelfRowPerObserver ==
    (Returned /\ WithinCapacity) =>
        \A i \in DOMAIN kv : \A t \in DOMAIN kv[i] :
            /\ { e \in DOMAIN kv[i][t] : Ch(kv[i][t][e], IS_SELF) # RZero } = {i}
            /\ Ch(kv[i][t][i], IS_SELF) = ROne

\* C5's case: the second of two players is on the orange team and observes itself
\* in row 1, not in row 0.
OrangeObserverSelfRow ==
    /\ status = "ok"
    /\ CallPlayers = 2 /\ WithinCapacity
    /\ episode_teams[1] = 1
    /\ Ch(kv[1][0][1], IS_SELF) = ROne
    /\ Ch(kv[1][0][0], IS_SELF) = RZero

\* C6: in every Key-Value tensor returned, for every tick and entity row, at most
\* one of the five kind channels (self, teammate, opponent, ball, pad) is set,
\* the observer's own row included, for observers of either team.
KindChannelsExclusive ==
    Returned =>
        \A i \in DOMAIN kv : \A t \in DOMAIN kv[i] : \A e \in DOMAIN kv[i][t] :
            Cardinality(KindsSet(kv[i][t][e])) <= 1

\* C6 as the code has it: the observer's own row has IS_SELF and IS_MATE both set
\* and IS_OPP clear, for either team; IS_SELF is set in no other row; no row has
\* IS_MATE and IS_OPP both set, nor IS_BALL and IS_BOOST both set; and with the
\* player count within capacity every other row has at most one kind channel set
\* and the own row has no third one.
KindChannelsOfOwnRow ==
    Returned =>
        \A i \in DOMAIN kv : \A t \in DOMAIN kv[i] :
            /\ {IS_SELF, IS_MATE} \subseteq KindsSet(kv[i][t][i])
            /\ IS_OPP \notin KindsSet(kv[i][t][i])
            /\ \A e \in DOMAIN kv[i][t] :
                  /\ e # i => IS_SELF \notin KindsSet(kv[i][t][e])
                  /\ ~({IS_MATE, IS_OPP} \subseteq KindsSet(kv[i][t][e]))
                  /\ ~({IS_BALL, IS_BOOST} \subseteq KindsSet(kv[i][t][e]))
                  /\ \A c \in KindsSet(kv[i][t][e]) : Ch(kv[i][t][e], c) = ROne
                  /\ WithinCapacity =>
                        IF e = i THEN KindsSet(kv[i][t][e]) = {IS_SELF, IS_MATE}
                        ELSE Cardinality(KindsSet(kv[i][t][e])) <= 1

\* C6's case: an orange observer sees its orange team mate as IS_MATE only, the blue
\* player as IS_OPP only, and itself as IS_SELF and IS_MATE.
OrangeObserverKinds ==
    /\ status = "ok"
    /\ CallPlayers = 2 /\ WithinCapacity
    /\ episode_teams[0] = 0 /\ episode_teams[1] = 1
    /\ KindsSet(kv[1][0][1]) = {IS_SELF, IS_MATE}
    /\ KindsSet(kv[1][0][0]) = {IS_OPP}
    /\ KindsSet(kv[0][0][1]) = {IS_OPP}

\* C7: add_relative_components writes only the appended channels 25..54 of the
\* Key-Value tensor: for every observer, tick and entity row the base channels
\* 0..24 are after the step what they were before it, and so is the Query tensor.
RelativeStepKeepsBaseChannels ==
    status = "ok" =>
        /\ q = Query(kv_in)
        /\ \A i \in DOMAIN kv : \A t \in DOMAIN kv[i] : \A e \in DOMAIN kv[i][t] :
              \A c \in Channels : Ch(kv[i][t][e], c) = Ch(kv_in[i][t][e], c)

\* C7's failing case: the observer is away from the origin, and the forward vector
\* of a row has lost the observer's position.
ForwardChannelShifted ==
    /\ status = "ok"
    /\ \E i \in DOMAIN kv : \E t \in DOMAIN kv[i] : \E e \in DOMAIN kv[i][t] :
          /\ Ch(q[i][t], POS + 1) # RZero
          /\ Ch(kv[i][t][e], FW) = RSub(Ch(kv_in[i][t][e], FW), Ch(q[i][t], POS + 1))
          /\ Ch(kv[i][t][e], FW) # Ch(kv_in[i][t][e], FW)

\* the widths that are not header + ball block + whole player blocks, and those
\* that hold more players than the configured capacity
WidthMismatch ==
    \/ (width - players_start_index(NPads)) % PLAYER_INFO_LENGTH # 0
    \/ (self_n_players # 0 /\ CallPlayers > self_n_players)

\* C8: a call on a batch whose record width does not match the layout of the
\* configured capacity fails with an error: no tensors are returned, no player
\* data reaches the ball or pad rows, and the carried timers stay as they were.
WidthMismatchFailsCleanly ==
    (status \in {"ok", "error", "injected"} /\ WidthMismatch) =>
        /\ status = "error"
        /\ q = <<>> /\ kv = <<>> /\ m = <<>>
        /\ self_boost_timers = prev_boost_timers
        /\ self_demo_timers = prev_demo_timers

\* C8's failing case: more players than capacity, tensors returned, and the ball
\* row carries the team flag of the player written over it.
PlayerWrittenOverBall ==
    /\ status = "ok"
    /\ self_n_players # 0 /\ CallPlayers > self_n_players
    /\ \E i \in DOMAIN kv :
          /\ IS_BALL \in KindsSet(kv[i][0][self_n_players])
          /\ KindsSet(kv[i][0][self_n_players]) \cap {IS_MATE, IS_OPP} # {}

\* C9: for the same game states and the same capacity, batched_build_obs followed
\* by add_actions gives for every observer and tick the values NectoObsOLD.build_obs
\* gives, the relative channels apart: the same entity in the same row, the same
\* channel order and signs, the same pad and demolition timers, the same mask.
MatchesReferenceEncoder ==
    Returned =>
        \A i \in DOMAIN old_obs : \A t \in DOMAIN old_obs[i] :
            /\ \A e \in DOMAIN old_obs[i][t].kv :
                  /\ m[i][t][e] = old_obs[i][t].m[e]
                  /\ \A c \in IS_SELF..ON_GROUND + 1 :
                        Ch(kv[i][t][e], c) = Ch(old_obs[i][t].kv[e], c)
            /\ \A c \in IS_SELF..ON_GROUND + 1 : Ch(q[i][t], c) = Ch(old_obs[i][t].q, c)

\* C9's failing case: row 0 is the ball for the reference encoder and the first
\* player for the batched one.
BallRowDiffers ==
    /\ status = "ok"
    /\ old_obs # <<>>
    /\ IS_BALL \in KindsSet(old_obs[0][0].kv[0])
    /\ IS_BALL \notin KindsSet(kv[0][0][0])
    /\ IS_SELF \in KindsSet(kv[0][0][0])

====
